---- MODULE Spec2Model ----
(***************************************************************************)
(* Model of vault-workshop/rust/vault.rs: an Anchor program with three     *)
(* instructions (initialize, deposit, withdraw) over one Vault record per  *)
(* owner and three program-derived addresses (state, auth, vault).         *)
(*                                                                         *)
(* One action is one transaction: the account validation generated from    *)
(* the #[derive(Accounts)] struct, the handler body and the system-program *)
(* transfer it invokes.  A failing transaction leaves the ledger as it was. *)
(*                                                                         *)
(* Ledger facts used (they are the semantics of the calls the source       *)
(* makes): a seed list hashes to one address per bump; `bump` without a    *)
(* value searches from the highest bump downward for the first address off *)
(* the curve; a system transfer needs `from` to sign, either in the        *)
(* transaction or through signer seeds that hash to `from`; it fails when  *)
(* `from` holds less than the amount.  Rent-exemption checks on wallets    *)
(* and vaults, fees and the writable flags are not modelled; the rent that *)
(* `init` pays for the state account is.                                   *)
(***************************************************************************)
EXTENDS Integers, FiniteSets, Sequences, TLC

\* ---------------------------------------------------------------- bounds
NumOwners == 2        \* wallets 1..NumOwners
MaxBump == 2          \* bumps are 0..MaxBump (u8 in the source)
InitLamports == 3     \* lamports every wallet starts with
StateRent == 1        \* rent-exempt minimum of the 43-byte state account
MaxAmount == 2        \* amounts are 0..MaxAmount

Owners == 1 .. NumOwners
Bumps == 0 .. MaxBump
Amounts == 0 .. MaxAmount
NoKey == 0            \* "no address": a seed list that hashes onto the curve

\* seed tags b"state", b"auth", b"vault"
TagState == 0
TagAuth == 1
TagVault == 2

\* ------------------------------------------------------ address derivation
\* The hash of (tag, seed, bump): injective, and disjoint from the wallets.
Hash(tag, seed, bump) == NumOwners + 1 + (seed * 3 + tag) * (MaxBump + 1) + bump

\* Whether the hash of (tag, seed, bump) is a point of the curve, i.e. an
\* address that may have a private key.  At most one of three consecutive
\* bumps is.
OnCurve(tag, seed, bump) == (seed + 2 * tag + bump) % 3 = 0

\* Pubkey::create_program_address: the address for one given bump.
create_program_address(tag, seed, bump) ==
    IF OnCurve(tag, seed, bump) THEN NoKey ELSE Hash(tag, seed, bump)

\* Pubkey::find_program_address: the highest bump whose address is off the
\* curve, with that address.
find_program_address(tag, seed) ==
    LET ok == {b \in Bumps : ~OnCurve(tag, seed, b)}
    IN  IF ok = {} THEN [key |-> NoKey, bump |-> 0]
        ELSE LET b == CHOOSE b \in ok : \A c \in ok : c <= b
             IN  [key |-> Hash(tag, seed, b), bump |-> b]

\* The chain state -> auth -> vault of every owner, with the bumps found.
Chain ==
    [o \in Owners |->
        LET s == find_program_address(TagState, o)
            a == find_program_address(TagAuth, s.key)
            v == find_program_address(TagVault, a.key)
        IN  [state |-> s, auth |-> a, vault |-> v]]
StateKey(o) == Chain[o].state.key
AuthKey(o) == Chain[o].auth.key
VaultKey(o) == Chain[o].vault.key
StateBump(o) == Chain[o].state.bump
AuthBump(o) == Chain[o].auth.bump
VaultBump(o) == Chain[o].vault.bump

\* ------------------------------------------------------------------ state
VARIABLES
    lamports,    \* the ledger: lamports held by every address
    data,        \* the Vault record stored at an address, or NoRecord
    last,        \* the last transaction: its inputs and its result
    deposited,   \* per owner: sum of the amounts of the successful deposits
    withdrawn    \* per owner: sum of the amounts of the successful withdrawals

vars == <<lamports, data, last, deposited, withdrawn>>

\* #[account] pub struct Vault
Vault(owner, state_bump, auth_bump, vault_bump) ==
    [owner |-> owner, state_bump |-> state_bump,
     auth_bump |-> auth_bump, vault_bump |-> vault_bump]

\* An address that holds no account of the program (system-owned, no data).
NoRecord == Vault(NoKey, 0, 0, 0)

\* Addresses a caller may put in the state, auth and vault slots of a
\* transaction for owner o: the derived one, the one with another bump, the
\* one of another owner and, for the vault, the address of withdraw's
\* signer seeds.
Other(o) == (o % NumOwners) + 1
AltBump(b) == (b + 1) % (MaxBump + 1)
Choices ==
    [o \in Owners |->
        [state |-> {StateKey(o), Hash(TagState, o, AltBump(StateBump(o))),
                    StateKey(Other(o))},
         auth |-> {AuthKey(o), Hash(TagAuth, StateKey(o), AltBump(AuthBump(o))),
                   AuthKey(Other(o))},
         vault |-> {VaultKey(o), Hash(TagVault, AuthKey(o), AltBump(VaultBump(o))),
                    VaultKey(Other(o)), Hash(TagVault, StateKey(o), AuthBump(o))}]]
Keys ==
    Owners \cup UNION {Choices[o].state \cup Choices[o].auth \cup Choices[o].vault : o \in Owners}

StateSlots == UNION {Choices[o].state : o \in Owners}

\* The account lists a caller may send for owner o: the owner's own chain,
\* the chain with one slot replaced by any of the addresses above, the whole
\* chain of another owner, and another owner's auth and vault under the
\* owner's own state.
Own(o) == [state |-> StateKey(o), auth |-> AuthKey(o), vault |-> VaultKey(o)]
Accounts ==
    [o \in Owners |->
        {Own(o), Own(Other(o)), [Own(Other(o)) EXCEPT !.state = StateKey(o)]}
        \cup {[Own(o) EXCEPT !.state = k] : k \in Choices[o].state}
        \cup {[Own(o) EXCEPT !.auth = k] : k \in Choices[o].auth}
        \cup {[Own(o) EXCEPT !.vault = k] : k \in Choices[o].vault}]

\* Whether address k holds an account of the program: only addresses put
\* in the state slot ever do.
Holds(dat, k) == k \in DOMAIN dat /\ dat[k] # NoRecord

\* Result codes: Ok, Anchor's account errors, the system program's errors
\* and the runtime's signer check.
Ok == "Ok"
AccountNotSigner == "AccountNotSigner"
AccountNotInitialized == "AccountNotInitialized"
AccountOwnedByWrongProgram == "AccountOwnedByWrongProgram"
ConstraintSeeds == "ConstraintSeeds"
AccountAlreadyInUse == "AccountAlreadyInUse"
ResultWithNegativeLamports == "ResultWithNegativeLamports"
PrivilegeEscalation == "PrivilegeEscalation"

\* A transaction's outcome: the result code and the ledger after it.  A
\* failed transaction commits nothing.
Outcome(result, lam, dat) == [result |-> result, lamports |-> lam, data |-> dat]

\* ---------------------------------------------------------- system program
\* anchor_lang::system_program::transfer through a CPI.  `signed` says
\* whether `from` signs: the runtime refuses the call when an account the
\* instruction marks as signer neither signed the transaction nor is the
\* address of the caller's signer seeds.
transfer(lam, dat, from, to, amount, signed) ==
    IF ~signed THEN Outcome(PrivilegeEscalation, lam, dat)
    ELSE IF amount > lam[from] THEN Outcome(ResultWithNegativeLamports, lam, dat)
    ELSE Outcome(Ok, [lam EXCEPT ![from] = @ - amount, ![to] = @ + amount], dat)

\* ------------------------------------------------------------- initialize
\* InitializeContext with the state account taken as it is when it already
\* exists (init_if_needed instead of init).
InitializeContext_if_needed(lam, dat, owner, signer, st, au, va) ==
    IF Holds(dat, va) THEN Outcome(AccountOwnedByWrongProgram, lam, dat)
    ELSE IF ~signer THEN Outcome(AccountNotSigner, lam, dat)
    ELSE IF find_program_address(TagState, owner).key # st
        THEN Outcome(ConstraintSeeds, lam, dat)
    ELSE LET rent == IF lam[st] >= StateRent THEN 0 ELSE StateRent - lam[st]
             paid == transfer(lam, dat, owner, st, rent, signer)
         IN  IF paid.result # Ok THEN paid
             ELSE IF find_program_address(TagVault, au).key # va
                 THEN Outcome(ConstraintSeeds, lam, dat)
             ELSE IF find_program_address(TagAuth, st).key # au
                 THEN Outcome(ConstraintSeeds, lam, dat)
             ELSE paid

\* InitializeContext whose rent payment goes to the account in the vault
\* slot.
InitializeContext_pays_vault(lam, dat, owner, signer, st, au, va) ==
    IF Holds(dat, va) THEN Outcome(AccountOwnedByWrongProgram, lam, dat)
    ELSE IF ~signer THEN Outcome(AccountNotSigner, lam, dat)
    ELSE IF find_program_address(TagState, owner).key # st
        THEN Outcome(ConstraintSeeds, lam, dat)
    ELSE IF Holds(dat, st) THEN Outcome(AccountAlreadyInUse, lam, dat)
    ELSE LET rent == IF lam[st] >= StateRent THEN 0 ELSE StateRent - lam[st]
             paid == transfer(lam, dat, owner, va, rent, signer)
         IN  IF paid.result # Ok THEN paid
             ELSE IF find_program_address(TagVault, au).key # va
                 THEN Outcome(ConstraintSeeds, lam, dat)
             ELSE IF find_program_address(TagAuth, st).key # au
                 THEN Outcome(ConstraintSeeds, lam, dat)
             ELSE paid

\* InitializeContext that keeps the rent it paid when a later constraint
\* fails.
InitializeContext_partial(lam, dat, owner, signer, st, au, va) ==
    IF Holds(dat, va) THEN Outcome(AccountOwnedByWrongProgram, lam, dat)
    ELSE IF ~signer THEN Outcome(AccountNotSigner, lam, dat)
    ELSE IF find_program_address(TagState, owner).key # st
        THEN Outcome(ConstraintSeeds, lam, dat)
    ELSE IF Holds(dat, st) THEN Outcome(AccountAlreadyInUse, lam, dat)
    ELSE LET rent == IF lam[st] >= StateRent THEN 0 ELSE StateRent - lam[st]
             paid == transfer(lam, dat, owner, st, rent, signer)
         IN  IF paid.result # Ok THEN paid
             ELSE IF find_program_address(TagVault, au).key # va
                 THEN Outcome(ConstraintSeeds, paid.lamports, dat)
             ELSE IF find_program_address(TagAuth, st).key # au
                 THEN Outcome(ConstraintSeeds, paid.lamports, dat)
             ELSE paid

\* InitializeContext without the seeds constraint on the state account.
InitializeContext_any_state(lam, dat, owner, signer, st, au, va) ==
    IF Holds(dat, va) THEN Outcome(AccountOwnedByWrongProgram, lam, dat)
    ELSE IF ~signer THEN Outcome(AccountNotSigner, lam, dat)
    ELSE IF Holds(dat, st) THEN Outcome(AccountAlreadyInUse, lam, dat)
    ELSE LET rent == IF lam[st] >= StateRent THEN 0 ELSE StateRent - lam[st]
             paid == transfer(lam, dat, owner, st, rent, signer)
         IN  IF paid.result # Ok THEN paid
             ELSE IF find_program_address(TagVault, au).key # va
                 THEN Outcome(ConstraintSeeds, lam, dat)
             ELSE IF find_program_address(TagAuth, st).key # au
                 THEN Outcome(ConstraintSeeds, lam, dat)
             ELSE paid

\* The checks generated from InitializeContext and the creation of the
\* state account by `init, payer = owner, space = 43`.  Fields are read in
\* the order of the struct, `init` runs after them, then the remaining
\* constraints.
InitializeContext(lam, dat, owner, signer, st, au, va) ==
    IF Holds(dat, va) THEN Outcome(AccountOwnedByWrongProgram, lam, dat)
    ELSE IF ~signer THEN Outcome(AccountNotSigner, lam, dat)
    ELSE IF find_program_address(TagState, owner).key # st
        THEN Outcome(ConstraintSeeds, lam, dat)
    ELSE IF Holds(dat, st) THEN Outcome(AccountAlreadyInUse, lam, dat)
    ELSE LET rent == IF lam[st] >= StateRent THEN 0 ELSE StateRent - lam[st]
             paid == transfer(lam, dat, owner, st, rent, signer)
         IN  IF paid.result # Ok THEN paid
             ELSE IF find_program_address(TagVault, au).key # va
                 THEN Outcome(ConstraintSeeds, lam, dat)
             ELSE IF find_program_address(TagAuth, st).key # au
                 THEN Outcome(ConstraintSeeds, lam, dat)
             ELSE paid

\* initialize that stores the auth and the vault bump in each other's field.
initialize_swapped(owner, st, au) ==
    Vault(owner,
          find_program_address(TagState, owner).bump,
          find_program_address(TagVault, au).bump,
          find_program_address(TagAuth, st).bump)

\* pub fn initialize: the record written into the new state account from
\* the owner's key and ctx.bumps.
initialize(owner, st, au) ==
    Vault(owner,
          find_program_address(TagState, owner).bump,
          find_program_address(TagAuth, st).bump,
          find_program_address(TagVault, au).bump)

\* The whole initialize transaction.
InitializeTx(lam, dat, owner, signer, st, au, va) ==
    LET ctx == InitializeContext(lam, dat, owner, signer, st, au, va)
    IN  IF ctx.result # Ok THEN ctx
        ELSE Outcome(Ok, ctx.lamports, [dat EXCEPT ![st] = initialize(owner, st, au)])

\* ---------------------------------------------------------------- deposit
\* DepositContext that takes the state account without loading a record
\* from it.
DepositContext_unloaded(lam, dat, owner, signer, st, au, va) ==
    IF ~signer THEN AccountNotSigner
    ELSE IF Holds(dat, va) THEN AccountOwnedByWrongProgram
    ELSE IF create_program_address(TagAuth, st, dat[st].auth_bump) # au THEN ConstraintSeeds
    ELSE IF create_program_address(TagState, owner, dat[st].state_bump) # st THEN ConstraintSeeds
    ELSE IF create_program_address(TagVault, au, dat[st].vault_bump) # va THEN ConstraintSeeds
    ELSE Ok

\* DepositContext without the seeds constraint on the vault.
DepositContext_any_vault(lam, dat, owner, signer, st, au, va) ==
    IF ~signer THEN AccountNotSigner
    ELSE IF ~Holds(dat, st) THEN AccountNotInitialized
    ELSE IF Holds(dat, va) THEN AccountOwnedByWrongProgram
    ELSE IF create_program_address(TagAuth, st, dat[st].auth_bump) # au THEN ConstraintSeeds
    ELSE IF create_program_address(TagState, owner, dat[st].state_bump) # st THEN ConstraintSeeds
    ELSE Ok

\* The checks generated from DepositContext: owner signs, state holds a
\* Vault record, vault is a system account, and auth, state and vault are
\* the addresses of their seeds with the bumps stored in the record.
DepositContext(lam, dat, owner, signer, st, au, va) ==
    IF ~signer THEN AccountNotSigner
    ELSE IF ~Holds(dat, st) THEN AccountNotInitialized
    ELSE IF Holds(dat, va) THEN AccountOwnedByWrongProgram
    ELSE IF create_program_address(TagAuth, st, dat[st].auth_bump) # au THEN ConstraintSeeds
    ELSE IF create_program_address(TagState, owner, dat[st].state_bump) # st THEN ConstraintSeeds
    ELSE IF create_program_address(TagVault, au, dat[st].vault_bump) # va THEN ConstraintSeeds
    ELSE Ok

\* deposit that caches the amount in a field of the record.
deposit_caching(lam, dat, owner, signer, st, au, va, amount) ==
    LET r == transfer(lam, dat, owner, va, amount, signer)
    IN  IF r.result # Ok THEN r
        ELSE Outcome(Ok, r.lamports, [dat EXCEPT ![st].vault_bump = amount])

\* deposit that refuses an amount of zero.
deposit_nonzero(lam, dat, owner, signer, st, au, va, amount) ==
    IF amount = 0 THEN Outcome("InvalidAmount", lam, dat)
    ELSE transfer(lam, dat, owner, va, amount, signer)

\* deposit with the transfer's destination taken from the auth slot.
deposit_to_auth(lam, dat, owner, signer, st, au, va, amount) ==
    transfer(lam, dat, owner, au, amount, signer)

\* pub fn deposit: a transfer from the owner to the vault, signed by the
\* owner as signer of the transaction.
deposit(lam, dat, owner, signer, st, au, va, amount) ==
    transfer(lam, dat, owner, va, amount, signer)

\* The whole deposit transaction.
DepositTx(lam, dat, owner, signer, st, au, va, amount) ==
    LET ctx == DepositContext(lam, dat, owner, signer, st, au, va)
    IN  IF ctx # Ok THEN Outcome(ctx, lam, dat)
        ELSE deposit(lam, dat, owner, signer, st, au, va, amount)

\* --------------------------------------------------------------- withdraw
\* The checks generated from WithdrawContext, in the order of its fields.
WithdrawContext(lam, dat, owner, signer, st, au, va) ==
    IF ~Holds(dat, st) THEN AccountNotInitialized
    ELSE IF Holds(dat, va) THEN AccountOwnedByWrongProgram
    ELSE IF ~signer THEN AccountNotSigner
    ELSE IF create_program_address(TagState, owner, dat[st].state_bump) # st THEN ConstraintSeeds
    ELSE IF create_program_address(TagVault, au, dat[st].vault_bump) # va THEN ConstraintSeeds
    ELSE IF create_program_address(TagAuth, st, dat[st].auth_bump) # au THEN ConstraintSeeds
    ELSE Ok

\* The address withdraw's signer_seeds sign for:
\* [b"vault", state.key, [state.auth_bump]].
signer_seeds(dat, st) == create_program_address(TagVault, st, dat[st].auth_bump)

\* Whether the runtime takes `from` as a signer of the CPI: the vault has no
\* private key, so it signs only as the address of the signer seeds.
SignsFor(from, pda) == pda # NoKey /\ pda = from

\* withdraw whose transfer is taken as signed without the signer seeds
\* being compared with the vault.
withdraw_unchecked(lam, dat, owner, signer, st, au, va, amount) ==
    transfer(lam, dat, va, owner, amount, TRUE)

\* withdraw whose transfer is taken as signed and pays the account in the
\* auth slot.
withdraw_to_auth(lam, dat, owner, signer, st, au, va, amount) ==
    transfer(lam, dat, va, au, amount, TRUE)

\* withdraw that moves the lamports itself, without the system program.
withdraw_direct(lam, dat, owner, signer, st, au, va, amount) ==
    Outcome(Ok, [lam EXCEPT ![va] = @ - amount, ![owner] = @ + amount], dat)

\* pub fn withdraw: a transfer from the vault to the owner, signed with
\* signer_seeds.
withdraw(lam, dat, owner, signer, st, au, va, amount) ==
    transfer(lam, dat, va, owner, amount, SignsFor(va, signer_seeds(dat, st)))

\* The whole withdraw transaction.
WithdrawTx(lam, dat, owner, signer, st, au, va, amount) ==
    LET ctx == WithdrawContext(lam, dat, owner, signer, st, au, va)
    IN  IF ctx # Ok THEN Outcome(ctx, lam, dat)
        ELSE withdraw(lam, dat, owner, signer, st, au, va, amount)

\* ---------------------------------------------------------------- actions
\* Whether the caller put the owner's own derived addresses in the slots.
AddrsOk(o, st, au, va) == st = StateKey(o) /\ au = AuthKey(o) /\ va = VaultKey(o)

Call(op, o, signer, ok, amount, result) ==
    [op |-> op, owner |-> o, signer |-> signer, addrsOk |-> ok,
     amount |-> amount, result |-> result]

Init ==
    /\ lamports = [k \in Keys |-> IF k \in Owners THEN InitLamports ELSE 0]
    /\ data = [k \in StateSlots |-> NoRecord]
    /\ last = Call("none", 0, FALSE, FALSE, 0, Ok)
    /\ deposited = [o \in Owners |-> 0]
    /\ withdrawn = [o \in Owners |-> 0]

Initialize ==
    \E o \in Owners, signer \in BOOLEAN :
      \E acc \in Accounts[o] :
        LET st == acc.state
            au == acc.auth
            va == acc.vault
            r == InitializeTx(lamports, data, o, signer, st, au, va)
        IN  /\ lamports' = r.lamports
            /\ data' = r.data
            /\ last' = Call("initialize", o, signer, AddrsOk(o, st, au, va), 0, r.result)
            /\ UNCHANGED <<deposited, withdrawn>>

Deposit ==
    \E o \in Owners, signer \in BOOLEAN, amount \in Amounts :
      \E acc \in Accounts[o] :
        LET st == acc.state
            au == acc.auth
            va == acc.vault
            r == DepositTx(lamports, data, o, signer, st, au, va, amount)
        IN  /\ lamports' = r.lamports
            /\ data' = r.data
            /\ last' = Call("deposit", o, signer, AddrsOk(o, st, au, va), amount, r.result)
            /\ deposited' = IF r.result = Ok
                            THEN [deposited EXCEPT ![o] = @ + amount] ELSE deposited
            /\ UNCHANGED withdrawn

Withdraw ==
    \E o \in Owners, signer \in BOOLEAN, amount \in Amounts :
      \E acc \in Accounts[o] :
        LET st == acc.state
            au == acc.auth
            va == acc.vault
            r == WithdrawTx(lamports, data, o, signer, st, au, va, amount)
        IN  /\ lamports' = r.lamports
            /\ data' = r.data
            /\ last' = Call("withdraw", o, signer, AddrsOk(o, st, au, va), amount, r.result)
            /\ withdrawn' = IF r.result = Ok
                            THEN [withdrawn EXCEPT ![o] = @ + amount] ELSE withdrawn
            /\ UNCHANGED deposited

Next == Initialize \/ Deposit \/ Withdraw

Spec == Init /\ [][Next]_vars

\* ------------------------------------------------------- error vocabulary
\* The failure names of the design, read on the result codes of the code.
NotFound(r) == r = AccountNotInitialized
AlreadyExists(r) == r = AccountAlreadyInUse
InvalidAddress(r) == r \in {ConstraintSeeds, AccountOwnedByWrongProgram}
InsufficientFunds(r) == r = ResultWithNegativeLamports
Unauthorized(r) == r \in {PrivilegeEscalation, AccountNotSigner}

HasRecord(o) == Holds(data, StateKey(o))

\* The step is a transaction `op` sent by its owner with the owner's own
\* derived addresses.
OwnCall(op) == last'.op = op /\ last'.signer /\ last'.addrsOk

\* ------------------------------------------------------------------ C1
\* C1: after create(O) and deposit(O, d), a withdraw(O, w) with 0 < w <= d,
\* signed by O with the derived addresses, succeeds, takes w from the vault
\* and gives w to the owner.
C1_WithdrawSucceeds ==
    [][(/\ OwnCall("withdraw")
        /\ HasRecord(last'.owner)
        /\ last'.amount > 0
        /\ last'.amount <= lamports[VaultKey(last'.owner)])
       => /\ last'.result = Ok
          /\ lamports'[VaultKey(last'.owner)]
                = lamports[VaultKey(last'.owner)] - last'.amount
          /\ lamports'[last'.owner] = lamports[last'.owner] + last'.amount]_vars

\* ------------------------------------------------------------------ C2
\* C2: the vault balance of every owner is the sum of the successful
\* deposits minus the sum of the successful withdrawals, and is never
\* negative.
C2_Conservation ==
    \A o \in Owners :
        /\ lamports[VaultKey(o)] = deposited[o] - withdrawn[o]
        /\ lamports[VaultKey(o)] >= 0

\* A withdraw was attempted on an owner who has deposited twice the unit.
C2_Witness ==
    /\ last.op = "withdraw" /\ last.signer /\ last.addrsOk
    /\ deposited[last.owner] = 2
    /\ lamports[VaultKey(last.owner)] = 2

\* ------------------------------------------------------------------ C3
\* C3: a withdraw of more than the vault holds fails with InsufficientFunds
\* and leaves the vault's and the owner's balance as they were.
C3_OverdrawInsufficientFunds ==
    [][(/\ OwnCall("withdraw")
        /\ HasRecord(last'.owner)
        /\ last'.amount > lamports[VaultKey(last'.owner)])
       => /\ InsufficientFunds(last'.result)
          /\ lamports' = lamports]_vars

\* ------------------------------------------------------------------ C4
\* Whether the signer seeds built from o's record are the seeds of o's vault.
ChainMatches(o) == signer_seeds(data, StateKey(o)) = VaultKey(o)

C5_CreateOnce ==
    [][(last'.op = "initialize" /\ HasRecord(last'.owner))
       => /\ last'.result # Ok
          /\ (last'.signer /\ last'.addrsOk) => AlreadyExists(last'.result)
          /\ data' = data
          /\ lamports' = lamports]_vars

\* A second initialize was refused with AlreadyExists.
C5_Witness ==
    /\ last.op = "initialize" /\ last.signer /\ last.addrsOk
    /\ HasRecord(last.owner)
    /\ AlreadyExists(last.result)

\* ------------------------------------------------------------------ C6
\* C6: a deposit or withdraw for an owner without a record fails, with
\* NotFound when the owner sends it with the derived addresses, and changes
\* no balance and no record.
C6_NoRecordNotFound ==
    [][(last'.op \in {"deposit", "withdraw"} /\ ~HasRecord(last'.owner))
       => /\ last'.result # Ok
          /\ (last'.signer /\ last'.addrsOk) => NotFound(last'.result)
          /\ lamports' = lamports
          /\ data' = data]_vars

\* A deposit of a positive amount by an owner without a record was refused
\* with NotFound.
C6_Witness ==
    /\ last.op = "deposit" /\ last.signer /\ last.addrsOk
    /\ last.amount > 0
    /\ ~HasRecord(last.owner)
    /\ NotFound(last.result)

C8_RecordImmutable ==
    [][\A k \in StateSlots : Holds(data, k) => data'[k] = data[k]]_vars

\* A deposit succeeded, and an initialize failed, on an existing record.
C8_Witness ==
    /\ last.op = "initialize" /\ last.result # Ok
    /\ HasRecord(last.owner)
    /\ deposited[last.owner] > 0
    /\ data[StateKey(last.owner)]
         = Vault(last.owner, StateBump(last.owner), AuthBump(last.owner),
                 VaultBump(last.owner))

\* ------------------------------------------------------------------ C9
\* The ledger as it would be had no owner but o ever done anything.
OwnKeys ==
    [o \in Owners |->
        {o} \cup ((Choices[o].state \cup Choices[o].auth \cup Choices[o].vault)
                   \ {StateKey(Other(o)), AuthKey(Other(o)), VaultKey(Other(o))})]
LocalLamports(o) ==
    [k \in Keys |-> IF k \in OwnKeys[o] THEN lamports[k]
                    ELSE IF k \in Owners THEN InitLamports ELSE 0]
LocalData(o) ==
    [k \in StateSlots |-> IF k \in OwnKeys[o] THEN data[k] ELSE NoRecord]

\* Outcomes g and l agree on whether they succeed and on o's balances and
\* record, and on the result code when o sent its own addresses.
SameFor(o, acc, g, l) ==
    /\ (g.result = Ok) = (l.result = Ok)
    /\ acc = Own(o) => g.result = l.result
    /\ g.lamports[o] = l.lamports[o]
    /\ g.lamports[VaultKey(o)] = l.lamports[VaultKey(o)]
    /\ g.data[StateKey(o)] = l.data[StateKey(o)]

\* Every transaction of every owner does here what it does on the ledger
\* where the other owners never did anything.
Independent ==
    \A o \in Owners :
      LET lam == LocalLamports(o)
          dat == LocalData(o)
      IN  \A signer \in BOOLEAN, amount \in Amounts, acc \in Accounts[o] :
            /\ SameFor(o, acc,
                  InitializeTx(lamports, data, o, signer, acc.state, acc.auth, acc.vault),
                  InitializeTx(lam, dat, o, signer, acc.state, acc.auth, acc.vault))
            /\ SameFor(o, acc,
                  DepositTx(lamports, data, o, signer, acc.state, acc.auth, acc.vault, amount),
                  DepositTx(lam, dat, o, signer, acc.state, acc.auth, acc.vault, amount))
            /\ SameFor(o, acc,
                  WithdrawTx(lamports, data, o, signer, acc.state, acc.auth, acc.vault, amount),
                  WithdrawTx(lam, dat, o, signer, acc.state, acc.auth, acc.vault, amount))

\* C9: a transaction of owner A leaves the record, the vault balance and the
\* own balance of every other owner B unchanged; and what a transaction of B
\* does (whether it succeeds, B's balances and record after it, and its
\* result code when B sends its own addresses) is the same as on a ledger
\* where the other owners never did anything.
C9_OwnersIndependent ==
    /\ [][\A b \in Owners \ {last'.owner} :
             /\ data'[StateKey(b)] = data[StateKey(b)]
             /\ lamports'[VaultKey(b)] = lamports[VaultKey(b)]
             /\ lamports'[b] = lamports[b]
             /\ deposited'[b] = deposited[b]
             /\ withdrawn'[b] = withdrawn[b]]_vars
    /\ []Independent

\* Both owners have a record and a funded vault, and the last transaction
\* was a successful deposit.
C9_Witness ==
    /\ \A o \in {1, Other(1)} : HasRecord(o) /\ lamports[VaultKey(o)] > 0
    /\ Other(1) # 1
    /\ last.op = "deposit" /\ last.result = Ok /\ last.amount > 0

\* ------------------------------------------------------------------ C10
\* C10 as stated: a deposit with amount 0 fails and moves no value.
C10_ZeroDepositFails ==
    [][(OwnCall("deposit") /\ HasRecord(last'.owner) /\ last'.amount = 0)
       => /\ last'.result # Ok
          /\ lamports' = lamports]_vars

\* C10 as amended: a deposit with amount 0 moves no value, and succeeds
\* when the owner sends it with the derived addresses and has a record.
C10_ZeroDepositNoOp ==
    [][(last'.op = "deposit" /\ last'.amount = 0)
       => /\ lamports' = lamports
          /\ data' = data
          /\ (last'.signer /\ last'.addrsOk /\ HasRecord(last'.owner))
             => last'.result = Ok]_vars

\* A deposit of 0 returned Ok.
C10_Witness ==
    /\ last.op = "deposit" /\ last.amount = 0
    /\ last.signer /\ last.addrsOk
    /\ last.result = Ok

\* ------------------------------------------------------------------ C11
\* C11 as stated: a successful initialize persists a new record and leaves
\* every balance as it was.
C11_CreateMovesNoValue ==
    [][(last'.op = "initialize" /\ last'.result = Ok)
       => /\ ~HasRecord(last'.owner)
          /\ Holds(data', StateKey(last'.owner))
          /\ lamports' = lamports]_vars

\* C11 as amended: a successful initialize persists a new record for its
\* owner and moves only the rent of the state account, from the owner to the
\* state address; every vault balance and every other balance is as it was.
C11_CreateMovesOnlyRent ==
    [][(last'.op = "initialize" /\ last'.result = Ok)
       => /\ ~HasRecord(last'.owner)
          /\ Holds(data', StateKey(last'.owner))
          /\ data'[StateKey(last'.owner)].owner = last'.owner
          /\ \A k \in StateSlots \ {StateKey(last'.owner)} : data'[k] = data[k]
          /\ lamports'[last'.owner] = lamports[last'.owner] - StateRent
          /\ lamports'[StateKey(last'.owner)] = lamports[StateKey(last'.owner)] + StateRent
          /\ \A k \in Keys \ {last'.owner, StateKey(last'.owner)} :
                lamports'[k] = lamports[k]]_vars

\* An initialize succeeded for an owner while another owner's vault held
\* value.
C11_Witness ==
    /\ last.op = "initialize" /\ last.result = Ok
    /\ HasRecord(last.owner)
    /\ lamports[StateKey(last.owner)] = StateRent
    /\ lamports[VaultKey(Other(last.owner))] > 0

\* ------------------------------------------------------------------ C12
\* The account list with which owner o's initialize, and o's deposit of 0,
\* pass in the present ledger.
AcceptedBy(o) ==
    {acc \in Accounts[o] :
        \/ InitializeTx(lamports, data, o, TRUE, acc.state, acc.auth, acc.vault).result = Ok
        \/ DepositTx(lamports, data, o, TRUE, acc.state, acc.auth, acc.vault, 0).result = Ok}

\* C12: the state, auth and vault addresses and the bumps derived for an
\* owner are the same in every ledger state: whatever happened before, the
\* only account list initialize and deposit accept for o is the chain derived
\* from o alone, they do accept it (initialize while o has no record and can
\* pay the rent, deposit once o has one), and the bumps read from o's record
\* are those of that chain.
C12_DerivationDeterministic ==
    \A o \in Owners :
        /\ AcceptedBy(o) \subseteq {Own(o)}
        /\ (HasRecord(o) \/ lamports[o] >= StateRent) => AcceptedBy(o) = {Own(o)}
        /\ HasRecord(o)
           => /\ data[StateKey(o)].state_bump = find_program_address(TagState, o).bump
              /\ data[StateKey(o)].auth_bump = find_program_address(TagAuth, StateKey(o)).bump
              /\ data[StateKey(o)].vault_bump = find_program_address(TagVault, AuthKey(o)).bump

\* Both owners have records, value was deposited, and the last transaction
\* was refused.
C12_Witness ==
    /\ \A o \in Owners : HasRecord(o)
    /\ \E o \in Owners : deposited[o] > 0
    /\ last.op = "deposit" /\ last.result # Ok

\* ------------------------------------------------------------------ C13
\* C13: the seed chain withdraw signs with is the chain by which the debited
\* vault was derived: for every owner with a record, the address of the
\* signer seeds built from the record is the owner's vault address.
C13_SignerSeedsAreVaultSeeds ==
    \A o \in Owners : HasRecord(o) => ChainMatches(o)

\* ------------------------------------------------------------------ C14
\* C14: every record is stored at the state address of its owner, and each
\* stored bump is the bump of its own namespace: recomputing state from the
\* owner with state_bump, auth from the state address with auth_bump and
\* vault from the auth address with vault_bump gives the addresses derived at
\* creation.
C14_ChainIntegrity ==
    \A k \in StateSlots :
        Holds(data, k)
        => LET rec == data[k]
               au == create_program_address(TagAuth, k, rec.auth_bump)
           IN  /\ rec.owner \in Owners
               /\ k = StateKey(rec.owner)
               /\ create_program_address(TagState, rec.owner, rec.state_bump) = k
               /\ au = AuthKey(rec.owner)
               /\ create_program_address(TagVault, au, rec.vault_bump)
                     = VaultKey(rec.owner)

\* Records exist for two owners, one of them with different auth and vault
\* bumps, and a deposit has succeeded on it.
C14_Witness ==
    /\ \A o \in Owners : HasRecord(o)
    /\ \E o \in Owners :
          /\ data[StateKey(o)].auth_bump # data[StateKey(o)].vault_bump
          /\ deposited[o] > 0
    /\ last.op = "withdraw"

\* ------------------------------------------------------------------ C15
\* C15: a successful deposit is signed by the owner, takes exactly the
\* amount from the owner and adds exactly the amount to the owner's vault,
\* and changes no other balance; a deposit of more than the owner holds,
\* sent by the owner with the derived addresses, fails with
\* InsufficientFunds and changes no balance.
C15_DepositTransfersAmount ==
    [][last'.op = "deposit"
       => /\ last'.result = Ok
             => /\ last'.signer
                /\ lamports'[last'.owner] = lamports[last'.owner] - last'.amount
                /\ lamports'[VaultKey(last'.owner)]
                      = lamports[VaultKey(last'.owner)] + last'.amount
                /\ \A k \in Keys \ {last'.owner, VaultKey(last'.owner)} :
                      lamports'[k] = lamports[k]
          /\ (/\ last'.signer /\ last'.addrsOk /\ HasRecord(last'.owner)
              /\ last'.amount > lamports[last'.owner])
             => /\ InsufficientFunds(last'.result)
                /\ lamports' = lamports
          /\ (/\ last'.signer /\ last'.addrsOk /\ HasRecord(last'.owner)
              /\ last'.amount <= lamports[last'.owner])
             => last'.result = Ok]_vars

\* A deposit of more than the owner held was refused with InsufficientFunds
\* after an earlier deposit had succeeded.
C15_Witness ==
    /\ last.op = "deposit" /\ last.signer /\ last.addrsOk
    /\ InsufficientFunds(last.result)
    /\ last.amount > lamports[last.owner]
    /\ lamports[VaultKey(last.owner)] > 0

\* ------------------------------------------------------------------ C16
\* C16: whenever initialize, deposit or withdraw returns a failure, all
\* records and all balances are what they were before the call.
C16_FailureIsAtomic ==
    [][last'.result # Ok
       => /\ lamports' = lamports
          /\ data' = data
          /\ deposited' = deposited
          /\ withdrawn' = withdrawn]_vars

\* An initialize of an owner without a record, who can pay the rent, was
\* refused for its addresses.
C16_Witness ==
    /\ last.op = "initialize" /\ last.signer /\ ~last.addrsOk
    /\ last.result = ConstraintSeeds
    /\ ~HasRecord(last.owner)
    /\ lamports[last.owner] >= StateRent

\* ------------------------------------------------------------------ C17
\* C17: an owner who has a record has it after every step, and an owner
\* gets a record only by a successful initialize of that owner: deposit and
\* withdraw create none.
C17_Lifecycle ==
    [][\A o \in Owners :
          /\ HasRecord(o) => Holds(data', StateKey(o))
          /\ (~HasRecord(o) /\ Holds(data', StateKey(o)))
             => /\ last'.op = "initialize"
                /\ last'.owner = o
                /\ last'.result = Ok
          /\ (last'.op = "initialize" /\ last'.owner = o /\ last'.result = Ok)
             => ~HasRecord(o) /\ Holds(data', StateKey(o))]_vars

\* An owner with a record and a funded vault, after a refused withdraw,
\* while another owner has no record.
C17_Witness ==
    /\ last.op = "withdraw" /\ last.result # Ok
    /\ HasRecord(last.owner)
    /\ lamports[VaultKey(last.owner)] > 0
    /\ ~HasRecord(Other(last.owner))

\* ------------------------------------------------------------------ C18
\* C18: the balance of an owner's vault goes down only by a withdraw that
\* this owner signed, with the owner's own addresses, and the amount taken
\* from the vault is added to this owner's balance and to no other; a
\* withdraw that the owner did not sign, or that another principal sends,
\* changes no balance.
C18_OnlyOwnerWithdraws ==
    [][/\ \A o \in Owners :
             lamports'[VaultKey(o)] < lamports[VaultKey(o)]
             => /\ last'.op = "withdraw"
                /\ last'.owner = o
                /\ last'.signer
                /\ last'.addrsOk
                /\ last'.result = Ok
                /\ lamports[VaultKey(o)] - lamports'[VaultKey(o)] = last'.amount
                /\ lamports'[o] = lamports[o] + last'.amount
                /\ \A k \in Keys \ {o, VaultKey(o)} : lamports'[k] = lamports[k]
       /\ (last'.op = "withdraw" /\ (~last'.signer \/ ~last'.addrsOk))
             => last'.result # Ok /\ lamports' = lamports]_vars

\* A withdraw on a funded vault that its owner did not sign was refused.
C18_Witness ==
    /\ last.op = "withdraw" /\ ~last.signer /\ last.addrsOk
    /\ last.amount > 0
    /\ last.amount <= lamports[VaultKey(last.owner)]
    /\ last.result = AccountNotSigner

\* ------------------------------------------------------------------ C19
\* C19: with every transaction one atomic step, a withdraw commits only if
\* the vault holds its amount when it runs, so of two withdrawals that each
\* fit the balance but together exceed it at most one commits; the sum
\* withdrawn never exceeds the sum deposited and no vault balance is ever
\* below zero.
C19_NoDoubleWithdraw ==
    /\ [][(last'.op = "withdraw" /\ last'.result = Ok)
           => last'.amount <= lamports[VaultKey(last'.owner)]]_vars
    /\ [](\A o \in Owners :
             /\ withdrawn[o] <= deposited[o]
             /\ lamports[VaultKey(o)] >= 0)

\* A withdraw of an amount that fits the vault's balance once but not twice
\* has run.
C19_Witness ==
    /\ last.op = "withdraw" /\ last.signer /\ last.addrsOk
    /\ last.amount > 0
    /\ last.amount <= deposited[last.owner]
    /\ 2 * last.amount > deposited[last.owner]

\* ------------------------------------------------------------------ C20
\* C20: deposit and withdraw neither create nor destroy value: for every
\* owner the sum of the own balance and the vault balance is the same after
\* a deposit or withdraw, successful or failed, as before it.
C20_ValueConserved ==
    [][last'.op \in {"deposit", "withdraw"}
       => \A o \in Owners :
             lamports'[o] + lamports'[VaultKey(o)] = lamports[o] + lamports[VaultKey(o)]]_vars

\* A deposit of a positive amount succeeded and the owner's two balances
\* still add up to what the owner held after paying the rent.
C20_Witness ==
    /\ last.op = "deposit" /\ last.result = Ok /\ last.amount > 0
    /\ lamports[VaultKey(last.owner)] > 0
    /\ lamports[last.owner] + lamports[VaultKey(last.owner)] = InitLamports - StateRent

====
